---------------------------- MODULE Spec2Model ----------------------------
(***************************************************************************)
(* Model of the token launch contract (src/src/lib.rs): the persistent     *)
(* state of `Contract`, the methods launch_token, preview_id and           *)
(* withdraw_fees, and the promise chain launch_token dispatches.           *)
(*                                                                         *)
(* NearToken values are u128 amounts of yoctoNEAR.  They are far larger    *)
(* than the integers TLC evaluates, so an amount is kept exactly, as five  *)
(* base-10^9 limbs, least significant first.  A string whose characters    *)
(* the code reads (a symbol, an identifier being formatted and parsed) is  *)
(* a sequence of one-character strings; a parsed AccountId is a string.    *)
(* Option<T> is a sequence of length 0 or 1.                               *)
(***************************************************************************)
EXTENDS Integers, Sequences, FiniteSets, TLC

(***************************************************************************)
(* Bounds of the model.                                                    *)
(***************************************************************************)
MaxLaunches == 3
MaxWithdrawals == 1
MaxFeeLaunches == 2
MaxFeeWithdrawals == 2
MaxCostLaunches == 2
MaxAsyncLaunches == 2
MaxIdLaunches == 2
MaxIdWithdrawals == 1
MaxChainLaunches == 2
MaxStageLaunches == 2

(***************************************************************************)
(* u128 arithmetic on limbs (NearToken::checked_add / checked_sub).        *)
(***************************************************************************)
Base == 10^9

None == <<>>
Some(x) == <<x>>
IsSome(o) == Len(o) = 1
Unwrap(o) == o[1]

U128_MAX == <<768211455, 374607431, 938463463, 282366920, 340>>

ZERO == <<0, 0, 0, 0, 0>>

from_yoctonear(n) == <<n, 0, 0, 0, 0>>
from_micronear(n) == <<0, 0, n, 0, 0>>
from_millinear(n) == from_micronear(n * 1000)
from_near(n) == from_micronear(n * 1000000)

RECURSIVE LtFrom(_, _, _)
LtFrom(a, b, i) ==
    IF i = 0 THEN FALSE
    ELSE IF a[i] # b[i] THEN a[i] < b[i]
    ELSE LtFrom(a, b, i - 1)

Lt(a, b) == LtFrom(a, b, 5)
Le(a, b) == ~Lt(b, a)

\* The limbs of a + b and the carry out of the top limb.
SumLimbs(a, b) ==
    LET s1 == a[1] + b[1]
        s2 == a[2] + b[2] + (s1 \div Base)
        s3 == a[3] + b[3] + (s2 \div Base)
        s4 == a[4] + b[4] + (s3 \div Base)
        s5 == a[5] + b[5] + (s4 \div Base)
    IN [limbs |-> <<s1 % Base, s2 % Base, s3 % Base, s4 % Base, s5 % Base>>,
        carry |-> s5 \div Base]

\* The limbs of a - b, for a >= b.
DiffLimbs(a, b) ==
    LET d1 == a[1] - b[1]
        d2 == a[2] - b[2] - (IF d1 < 0 THEN 1 ELSE 0)
        d3 == a[3] - b[3] - (IF d2 < 0 THEN 1 ELSE 0)
        d4 == a[4] - b[4] - (IF d3 < 0 THEN 1 ELSE 0)
        d5 == a[5] - b[5] - (IF d4 < 0 THEN 1 ELSE 0)
    IN <<(d1 + Base) % Base, (d2 + Base) % Base, (d3 + Base) % Base,
         (d4 + Base) % Base, (d5 + Base) % Base>>

checked_add(a, b) ==
    LET sum == SumLimbs(a, b)
    IN IF sum.carry > 0 \/ Lt(U128_MAX, sum.limbs) THEN None ELSE Some(sum.limbs)

checked_sub(a, b) == IF Lt(a, b) THEN None ELSE Some(DiffLimbs(a, b))

unwrap_or_default(o) == IF IsSome(o) THEN Unwrap(o) ELSE ZERO

unwrap_or_default_u64(o) == IF IsSome(o) THEN Unwrap(o) ELSE 0

(***************************************************************************)
(* The cost constants.                                                     *)
(***************************************************************************)
INTEAR_DEX_STORAGE_DEPOSIT == from_millinear(5)
PLACH_POOL_STORAGE_DEPOSIT == from_millinear(15)
FT_STORAGE_DEPOSIT == from_micronear(1250)
OWN_STORAGE_EXPENSES == from_millinear(10)

\* (one registration deposit instead of two)
ID_COST_OneRegistration ==
    Unwrap(checked_add(
        Unwrap(checked_add(
            Unwrap(checked_add(INTEAR_DEX_STORAGE_DEPOSIT, PLACH_POOL_STORAGE_DEPOSIT)),
            OWN_STORAGE_EXPENSES)),
        FT_STORAGE_DEPOSIT))

ID_COST ==
    Unwrap(checked_add(
        Unwrap(checked_add(
            Unwrap(checked_add(INTEAR_DEX_STORAGE_DEPOSIT, PLACH_POOL_STORAGE_DEPOSIT)),
            OWN_STORAGE_EXPENSES)),
        Unwrap(checked_add(FT_STORAGE_DEPOSIT, FT_STORAGE_DEPOSIT))))

SHORT_ID_COST == from_near(1)

short_id_cost == SHORT_ID_COST
long_id_cost == ID_COST

(***************************************************************************)
(* Strings: String::to_lowercase, str::contains, u64 Display.              *)
(***************************************************************************)
Lower(c) ==
    CASE c = "A" -> "a"
      [] c = "B" -> "b"
      [] OTHER -> c

RECURSIVE to_lowercase(_)
to_lowercase(s) ==
    IF s = <<>> THEN <<>> ELSE <<Lower(Head(s))>> \o to_lowercase(Tail(s))

contains(s, c) == \E i \in 1..Len(s) : s[i] = c

Digit(d) == <<"0", "1", "2", "3", "4", "5", "6", "7", "8", "9">>[d + 1]

RECURSIVE Join(_)
Join(s) == IF s = <<>> THEN "" ELSE s[1] \o Join(Tail(s))

RECURSIVE Dec(_)
Dec(n) == IF n < 10 THEN <<Digit(n)>> ELSE Dec(n \div 10) \o <<Digit(n % 10)>>

(***************************************************************************)
(* str::parse::<AccountId>(): 2 to 64 characters, each a lowercase letter, *)
(* a digit or one of the separators - _ . ; no separator first, last or    *)
(* next to another separator.                                              *)
(***************************************************************************)
LowerAlnum ==
    {"a", "b", "c", "d", "e", "f", "g", "h", "i", "j", "k", "l", "m",
     "n", "o", "p", "q", "r", "s", "t", "u", "v", "w", "x", "y", "z",
     "0", "1", "2", "3", "4", "5", "6", "7", "8", "9"}

Separators == {"-", "_", "."}

AccountIdChars == LowerAlnum \cup Separators

IsValidAccountId(s) ==
    /\ Len(s) >= 2
    /\ Len(s) <= 64
    /\ \A i \in 1..Len(s) : s[i] \in AccountIdChars
    /\ s[1] \notin Separators
    /\ s[Len(s)] \notin Separators
    /\ \A i \in 1..(Len(s) - 1) : ~(s[i] \in Separators /\ s[i + 1] \in Separators)

parse_account_id(s) == IF IsValidAccountId(s) THEN Some(Join(s)) ELSE None

\* env::current_account_id(), and the characters format! writes for it.
CurrentAccountChars == <<"l", "a", "u", "n", "c", "h", ".", "n", "e", "a", "r">>
current_account_id == Join(CurrentAccountChars)

\* format!("{symbol_lower}.{current_account_id}").parse::<AccountId>()
ShortAccountId(symbol_lower) ==
    parse_account_id(symbol_lower \o <<".">> \o CurrentAccountChars)

\* format!("{symbol_lower}-{next_meme_id}.{current_account_id}").parse::<AccountId>()
LongAccountId(symbol_lower, next_meme_id) ==
    parse_account_id(
        symbol_lower \o <<"-">> \o Dec(next_meme_id) \o <<".">> \o CurrentAccountChars)

(***************************************************************************)
(* LaunchData::validate.  A string is kept as what validate reads of it:   *)
(* its length in bytes, the prefix it starts with, and whether a '/'       *)
(* follows that prefix.  The result is the panic message, NoPanic if none. *)
(***************************************************************************)
MAX_URL_LENGTH == 50
MAX_DESCRIPTION_LENGTH == 200

NoPanic == <<>>

Str(len, prefix, slash) == [len |-> len, prefix |-> prefix, slash |-> slash]

is_none_or(o, P(_)) == ~IsSome(o) \/ P(Unwrap(o))

HandleAfter(url, prefix) == url.prefix = prefix /\ ~url.slash

starts_with_https(url) ==
    url.prefix \in {"https://", "https://t.me/", "https://x.com/"}

validate(data) ==
    IF ~is_none_or(data.telegram, LAMBDA url : url.len <= MAX_URL_LENGTH)
    THEN <<"Telegram URL must be less than {MAX_URL_LENGTH} characters.">>
    ELSE IF ~is_none_or(data.telegram, LAMBDA url : HandleAfter(url, "https://t.me/"))
    THEN <<"Telegram handle must not contain '/'.">>
    ELSE IF ~is_none_or(data.x, LAMBDA url : url.len <= MAX_URL_LENGTH)
    THEN <<"X URL must be less than {MAX_URL_LENGTH} characters.">>
    ELSE IF ~is_none_or(data.x, LAMBDA url : HandleAfter(url, "https://x.com/"))
    THEN <<"X handle must not contain '/'.">>
    ELSE IF ~is_none_or(data.website, LAMBDA url : url.len <= MAX_URL_LENGTH)
    THEN <<"Website URL must be less than {MAX_URL_LENGTH} characters.">>
    ELSE IF ~is_none_or(data.website, LAMBDA url : starts_with_https(url))
    THEN <<"Website URL must start with https://.">>
    ELSE IF ~is_none_or(data.description, LAMBDA desc : desc.len <= MAX_DESCRIPTION_LENGTH)
    THEN <<"Description must be less than {MAX_DESCRIPTION_LENGTH} characters.">>
    ELSE NoPanic

(***************************************************************************)
(* LookupMap: a function on the keys present.                              *)
(***************************************************************************)
EmptyMap == <<>>

Get(map, k) == IF k \in DOMAIN map THEN Some(map[k]) ELSE None

Insert(map, k, v) == (k :> v) @@ map

(***************************************************************************)
(* env::storage_usage(): the bytes of the records in storage.  A record    *)
(* costs its key, its borsh-serialized value and 40 bytes of overhead.  A  *)
(* key is the one-byte StorageKey prefix and either the borsh-serialized   *)
(* key or its 32-byte hash, depending on the map's hasher: the longer of   *)
(* the two is counted.                                                     *)
(***************************************************************************)
Max(a, b) == IF a >= b THEN a ELSE b

OptionStringBytes(o) == IF IsSome(o) THEN 1 + 4 + Unwrap(o).len ELSE 1

LaunchInfoBytes(info) ==
    OptionStringBytes(info.data.telegram) + OptionStringBytes(info.data.x)
        + OptionStringBytes(info.data.website)
        + OptionStringBytes(info.data.description)
        + (4 + Len(info.launched_by)) + 8

KeyBytes(k) == 1 + Max(32, 4 + Len(k))

RECURSIVE LaunchDataBytes(_, _)
LaunchDataBytes(map, keys) ==
    IF keys = {} THEN 0
    ELSE LET k == CHOOSE j \in keys : TRUE
         IN KeyBytes(k) + LaunchInfoBytes(map[k]) + 40
                + LaunchDataBytes(map, keys \ {k})

RECURSIVE CounterBytes(_)
CounterBytes(keys) ==
    IF keys = {} THEN 0
    ELSE LET k == CHOOSE j \in keys : TRUE
         IN KeyBytes(k) + 8 + 40 + CounterBytes(keys \ {k})

storage_usage(self) ==
    LaunchDataBytes(self.launch_data, DOMAIN self.launch_data)
        + CounterBytes(DOMAIN self.meme_id_counter)

storage_byte_cost == from_micronear(10)

\* Both amounts are whole micronears, so the u128 quotient is the quotient
\* of their micronear limbs.
own_storage_allowed == OWN_STORAGE_EXPENSES[3] \div storage_byte_cost[3]

(***************************************************************************)
(* The promise chain launch_token builds: four batches, each a receiver    *)
(* and its actions in order.                                               *)
(***************************************************************************)
INTEAR_DEX_CONTRACT_ID == "dex.intear.near"

PLACH_DEX_ID == "slimedragon.near/xyk"

PHANTOM_LIQUIDITY_NEAR == from_near(300)

FunctionCall(method, args, deposit, tgas) ==
    [kind |-> "function_call", method |-> method, args |-> args,
     deposit |-> deposit, tgas |-> tgas]

create_token_promise(account_id, storage_deposit, a) ==
    [receiver_id |-> account_id,
     actions |-> <<
        [kind |-> "create_account"],
        [kind |-> "use_global_contract"],
        [kind |-> "transfer", deposit |-> storage_deposit],
        FunctionCall("new",
            [owner_id |-> current_account_id,
             total_supply |-> a.total_supply,
             metadata |-> [spec |-> "ft-1.0.0", name |-> a.name, symbol |-> a.symbol,
                           icon |-> a.icon, decimals |-> a.decimals]],
            ZERO, 10) >>]

prepare_dex_promise(account_id) ==
    [receiver_id |-> INTEAR_DEX_CONTRACT_ID,
     actions |-> <<
        FunctionCall("storage_deposit", <<>>, INTEAR_DEX_STORAGE_DEPOSIT, 5),
        FunctionCall("register_assets",
            [asset_ids |-> <<account_id>>], from_yoctonear(1), 5),
        FunctionCall("register_assets",
            [asset_ids |-> <<account_id>>, for |-> PLACH_DEX_ID], from_yoctonear(1), 5),
        FunctionCall("deposit_near", <<>>, PLACH_POOL_STORAGE_DEPOSIT, 5) >>]

\* (the batch without the registration of the predecessor)
transfer_to_dex_promise_exchange_only(account_id, env, a) ==
    [receiver_id |-> account_id,
     actions |-> <<
        FunctionCall("storage_deposit",
            [account_id |-> INTEAR_DEX_CONTRACT_ID, registration_only |-> TRUE],
            FT_STORAGE_DEPOSIT, 5),
        FunctionCall("ft_transfer_call",
            [receiver_id |-> INTEAR_DEX_CONTRACT_ID, amount |-> a.total_supply,
             memo |-> None, msg |-> ""],
            from_yoctonear(1), 40) >>]

transfer_to_dex_promise(account_id, env, a) ==
    [receiver_id |-> account_id,
     actions |-> <<
        FunctionCall("storage_deposit",
            [account_id |-> INTEAR_DEX_CONTRACT_ID, registration_only |-> TRUE],
            FT_STORAGE_DEPOSIT, 5),
        FunctionCall("storage_deposit",
            [account_id |-> env.predecessor_account_id, registration_only |-> TRUE],
            FT_STORAGE_DEPOSIT, 5),
        FunctionCall("ft_transfer_call",
            [receiver_id |-> INTEAR_DEX_CONTRACT_ID, amount |-> a.total_supply,
             memo |-> None, msg |-> ""],
            from_yoctonear(1), 40) >>]

Operations(account_id, env, a) ==
    << [op |-> "DexCall", dex_id |-> PLACH_DEX_ID, method |-> "create_pool",
        assets |-> <<"near", account_id>>,
        fees |-> IF IsSome(a.fees) THEN Unwrap(a.fees) ELSE <<>>,
        pool_type |-> "LaunchV1",
        phantom_liquidity_near |-> PHANTOM_LIQUIDITY_NEAR,
        attached_near |-> PLACH_POOL_STORAGE_DEPOSIT,
        attached_token |-> a.total_supply] >>
    \o (IF IsSome(a.first_buy)
        THEN << [op |-> "SwapSimple", dex_id |-> PLACH_DEX_ID,
                 asset_in |-> "near", asset_out |-> account_id,
                 exact_in |-> Unwrap(a.first_buy), constraint |-> None],
                [op |-> "Withdraw", asset_id |-> account_id, amount |-> "Full",
                 at_least |-> None, to |-> Some(env.predecessor_account_id),
                 rescue_address |-> None] >>
        ELSE <<>>)

\* (1 yoctoNEAR attached whatever the first purchase)
create_pool_promise_one_yocto(account_id, env, a) ==
    [receiver_id |-> INTEAR_DEX_CONTRACT_ID,
     actions |-> <<
        FunctionCall("execute_operations",
            [operations |-> Operations(account_id, env, a)],
            from_yoctonear(1), 150) >>]

create_pool_promise(account_id, env, a) ==
    [receiver_id |-> INTEAR_DEX_CONTRACT_ID,
     actions |-> <<
        FunctionCall("execute_operations",
            [operations |-> Operations(account_id, env, a)],
            IF IsSome(a.first_buy) THEN Unwrap(a.first_buy) ELSE from_yoctonear(1),
            150) >>]

\* (the exchange prepared before the account exists)
ChainExchangeFirst(account_id, storage_deposit, env, a) ==
    << prepare_dex_promise(account_id),
       create_token_promise(account_id, storage_deposit, a),
       transfer_to_dex_promise(account_id, env, a),
       create_pool_promise(account_id, env, a) >>

Chain(account_id, storage_deposit, env, a) ==
    << create_token_promise(account_id, storage_deposit, a),
       prepare_dex_promise(account_id),
       transfer_to_dex_promise(account_id, env, a),
       create_pool_promise(account_id, env, a) >>

(***************************************************************************)
(* Contract::launch_token, statement by statement, on `self` (the three    *)
(* fields of Contract).  The result holds the panic message (NoPanic when  *)
(* the call returns), the fields as written up to that point, the returned *)
(* AccountId and the promise chain.                                        *)
(***************************************************************************)
Panic(self, message) ==
    [panic |-> message, self |-> self, ret |-> None, chain |-> None]

LaunchInfo(env, a) ==
    [data |-> a.launch_data,
     launched_by |-> env.predecessor_account_id,
     launched_at_ns |-> env.block_timestamp]

\* (the short kind charged the premium alone)
CostPremiumOnly(a) == IF a.short_id THEN SHORT_ID_COST ELSE ID_COST

Cost(a) ==
    IF a.short_id THEN Unwrap(checked_add(SHORT_ID_COST, ID_COST)) ELSE ID_COST

\* (a deposit equal to the cost refused)
StorageDepositStrict(env, a) ==
    LET due == checked_add(Cost(a), unwrap_or_default(a.first_buy))
    IN IF IsSome(due) /\ Lt(Unwrap(due), env.attached_deposit)
       THEN checked_sub(env.attached_deposit, Unwrap(due))
       ELSE None

\* (the first purchase not taken off the deposit)
StorageDepositCostOnly(env, a) == checked_sub(env.attached_deposit, Cost(a))

StorageDeposit(env, a) ==
    LET rest == checked_sub(env.attached_deposit, Cost(a))
    IN IF IsSome(rest)
       THEN checked_sub(Unwrap(rest), unwrap_or_default(a.first_buy))
       ELSE None

\* (the counter read without the + 1)
NextMemeIdStale(self, symbol_lower) ==
    unwrap_or_default_u64(Get(self.meme_id_counter, Join(symbol_lower)))

\* lines 237-242 (and 158-163 of preview_id): the next sequence number.
NextMemeId(self, symbol_lower) ==
    unwrap_or_default_u64(Get(self.meme_id_counter, Join(symbol_lower))) + 1

\* (the short_id branch without the require! on hyphens)
AllocateShortHyphens(self, env, a) ==
    LET symbol_lower == to_lowercase(a.symbol)
        parsed == ShortAccountId(symbol_lower)
    IN IF ~IsSome(parsed)
       THEN Panic(self, <<"Invalid ticker">>)
       ELSE LET account_id == Unwrap(parsed)
                inserted == [self EXCEPT !.launch_data =
                                Insert(@, account_id, LaunchInfo(env, a))]
            IN IF IsSome(Get(self.launch_data, account_id))
               THEN Panic(inserted, <<"Short account ID for this symbol is already taken">>)
               ELSE [panic |-> NoPanic, self |-> inserted,
                     ret |-> Some(account_id), chain |-> None]

\* (the short_id branch with the result of insert ignored)
AllocateShortOverwrite(self, env, a) ==
    LET symbol_lower == to_lowercase(a.symbol)
        parsed == ShortAccountId(symbol_lower)
    IN IF contains(a.symbol, "-")
       THEN Panic(self, <<"Symbol cannot contain hyphens when using a short ID.">>)
       ELSE IF ~IsSome(parsed)
       THEN Panic(self, <<"Invalid ticker">>)
       ELSE [panic |-> NoPanic,
             self |-> [self EXCEPT !.launch_data =
                          Insert(@, Unwrap(parsed), LaunchInfo(env, a))],
             ret |-> parsed, chain |-> None]

\* lines 213-235: the short_id branch.
AllocateShort(self, env, a) ==
    LET symbol_lower == to_lowercase(a.symbol)
        parsed == ShortAccountId(symbol_lower)
    IN IF contains(a.symbol, "-")
       THEN Panic(self, <<"Symbol cannot contain hyphens when using a short ID.">>)
       ELSE IF ~IsSome(parsed)
       THEN Panic(self, <<"Invalid ticker">>)
       ELSE LET account_id == Unwrap(parsed)
                inserted == [self EXCEPT !.launch_data =
                                Insert(@, account_id, LaunchInfo(env, a))]
            IN IF IsSome(Get(self.launch_data, account_id))
               THEN Panic(inserted, <<"Short account ID for this symbol is already taken">>)
               ELSE [panic |-> NoPanic, self |-> inserted,
                     ret |-> Some(account_id), chain |-> None]

\* (the counter branch without the insert into meme_id_counter)
AllocateLongForgets(self, env, a) ==
    LET symbol_lower == to_lowercase(a.symbol)
        next_meme_id == NextMemeId(self, symbol_lower)
        parsed == LongAccountId(symbol_lower, next_meme_id)
    IN IF ~IsSome(parsed)
       THEN Panic(self, <<"Invalid ticker">>)
       ELSE LET account_id == Unwrap(parsed)
                inserted == [self EXCEPT !.launch_data =
                                Insert(@, account_id, LaunchInfo(env, a))]
            IN IF IsSome(Get(self.launch_data, account_id))
               THEN Panic(inserted,
                        <<"Long account ID for this symbol is already taken. This is a bug.">>)
               ELSE [panic |-> NoPanic, self |-> inserted,
                     ret |-> Some(account_id), chain |-> None]

\* lines 236-266: the counter branch.
AllocateLong(self, env, a) ==
    LET symbol_lower == to_lowercase(a.symbol)
        next_meme_id == NextMemeId(self, symbol_lower)
        counted == [self EXCEPT !.meme_id_counter =
                        Insert(@, Join(symbol_lower), next_meme_id)]
        parsed == LongAccountId(symbol_lower, next_meme_id)
    IN IF ~IsSome(parsed)
       THEN Panic(counted, <<"Invalid ticker">>)
       ELSE LET account_id == Unwrap(parsed)
                inserted == [counted EXCEPT !.launch_data =
                                Insert(@, account_id, LaunchInfo(env, a))]
            IN IF IsSome(Get(counted.launch_data, account_id))
               THEN Panic(inserted,
                        <<"Long account ID for this symbol is already taken. This is a bug.">>)
               ELSE [panic |-> NoPanic, self |-> inserted,
                     ret |-> Some(account_id), chain |-> None]

Allocate(self, env, a) ==
    IF a.short_id THEN AllocateShort(self, env, a) ELSE AllocateLong(self, env, a)

\* (the premium accrued for either kind)
AccrueFeeAlways(self, a) ==
    [self EXCEPT !.fees_earned = Unwrap(checked_add(@, SHORT_ID_COST))]

AccrueFee(self, a) ==
    IF a.short_id
    THEN [self EXCEPT !.fees_earned = Unwrap(checked_add(@, SHORT_ID_COST))]
    ELSE self

\* (the identifier allocated before the deposit is looked at)
launch_token_allocate_first(self, env, a) ==
    IF validate(a.launch_data) # NoPanic
    THEN Panic(self, validate(a.launch_data))
    ELSE LET allocated == Allocate(self, env, a)
         IN IF allocated.panic # NoPanic
            THEN allocated
            ELSE IF ~IsSome(StorageDeposit(env, a))
            THEN Panic(allocated.self,
                    <<"Insufficient deposit for launch cost. Attach at least", Cost(a)>>)
            ELSE [panic |-> NoPanic,
                  self |-> AccrueFee(allocated.self, a),
                  ret |-> allocated.ret,
                  chain |-> Some(Chain(Unwrap(allocated.ret),
                                       Unwrap(StorageDeposit(env, a)), env, a))]

launch_token(self, env, a) ==
    IF validate(a.launch_data) # NoPanic
    THEN Panic(self, validate(a.launch_data))
    ELSE IF ~IsSome(StorageDeposit(env, a))
    THEN Panic(self, <<"Insufficient deposit for launch cost. Attach at least", Cost(a)>>)
    ELSE LET allocated == Allocate(self, env, a)
         IN IF allocated.panic # NoPanic
            THEN allocated
            ELSE IF storage_usage(allocated.self) - storage_usage(self) > own_storage_allowed
            THEN Panic(allocated.self,
                    <<"Insufficient deposit for storage cost. Attach at least {storage_cost}.">>)
            ELSE IF a.short_id /\ ~IsSome(checked_add(allocated.self.fees_earned, SHORT_ID_COST))
            THEN Panic(allocated.self, <<"called Option::unwrap() on a None value">>)
            ELSE [panic |-> NoPanic,
                  self |-> AccrueFee(allocated.self, a),
                  ret |-> allocated.ret,
                  chain |-> Some(Chain(Unwrap(allocated.ret),
                                       Unwrap(StorageDeposit(env, a)), env, a))]

(***************************************************************************)
(* Contract::preview_id (a view: it reads self and writes nothing).        *)
(***************************************************************************)
\* (the short branch without the contains_key test)
preview_id_unchecked(self, symbol, short_id) ==
    LET symbol_lower == to_lowercase(symbol)
    IN IF short_id
       THEN IF contains(symbol, "-")
            THEN Panic(self, <<"Symbol cannot contain hyphens when using a short ID">>)
            ELSE IF ~IsSome(ShortAccountId(symbol_lower))
            THEN Panic(self, <<"Invalid ticker">>)
            ELSE [panic |-> NoPanic, self |-> self,
                  ret |-> ShortAccountId(symbol_lower), chain |-> None]
       ELSE LET next_meme_id == NextMemeId(self, symbol_lower)
            IN IF ~IsSome(LongAccountId(symbol_lower, next_meme_id))
               THEN Panic(self, <<"Invalid ticker">>)
               ELSE [panic |-> NoPanic, self |-> self,
                     ret |-> LongAccountId(symbol_lower, next_meme_id), chain |-> None]

preview_id(self, symbol, short_id) ==
    LET symbol_lower == to_lowercase(symbol)
    IN IF short_id
       THEN IF contains(symbol, "-")
            THEN Panic(self, <<"Symbol cannot contain hyphens when using a short ID">>)
            ELSE IF ~IsSome(ShortAccountId(symbol_lower))
            THEN Panic(self, <<"Invalid ticker">>)
            ELSE IF Unwrap(ShortAccountId(symbol_lower)) \in DOMAIN self.launch_data
            THEN Panic(self, <<"Short account ID for this symbol is already taken.">>)
            ELSE [panic |-> NoPanic, self |-> self,
                  ret |-> ShortAccountId(symbol_lower), chain |-> None]
       ELSE LET next_meme_id == NextMemeId(self, symbol_lower)
            IN IF ~IsSome(LongAccountId(symbol_lower, next_meme_id))
               THEN Panic(self, <<"Invalid ticker">>)
               ELSE [panic |-> NoPanic, self |-> self,
                     ret |-> LongAccountId(symbol_lower, next_meme_id), chain |-> None]

(***************************************************************************)
(* Contract::withdraw_fees.  #[private] and not #[payable]: the generated  *)
(* wrapper panics on an attached deposit and on a foreign predecessor.     *)
(***************************************************************************)
\* (fees_earned zeroed before the transfer reads it)
withdraw_fees_zero_first(self, env, to) ==
    IF env.attached_deposit # ZERO
    THEN [panic |-> <<"Method withdraw_fees doesn't accept deposit">>,
          self |-> self, transfer |-> None]
    ELSE IF env.predecessor_account_id # current_account_id
    THEN [panic |-> <<"Method withdraw_fees is private">>,
          self |-> self, transfer |-> None]
    ELSE [panic |-> NoPanic,
          self |-> [self EXCEPT !.fees_earned = ZERO],
          transfer |-> Some([receiver_id |-> to, amount |-> ZERO])]

\* (withdraw_fees without #[private])
withdraw_fees_public(self, env, to) ==
    IF env.attached_deposit # ZERO
    THEN [panic |-> <<"Method withdraw_fees doesn't accept deposit">>,
          self |-> self, transfer |-> None]
    ELSE [panic |-> NoPanic,
          self |-> [self EXCEPT !.fees_earned = ZERO],
          transfer |-> Some([receiver_id |-> to, amount |-> self.fees_earned])]

withdraw_fees(self, env, to) ==
    IF env.attached_deposit # ZERO
    THEN [panic |-> <<"Method withdraw_fees doesn't accept deposit">>,
          self |-> self, transfer |-> None]
    ELSE IF env.predecessor_account_id # current_account_id
    THEN [panic |-> <<"Method withdraw_fees is private">>,
          self |-> self, transfer |-> None]
    ELSE [panic |-> NoPanic,
          self |-> [self EXCEPT !.fees_earned = ZERO],
          transfer |-> Some([receiver_id |-> to, amount |-> self.fees_earned])]

(***************************************************************************)
(* A call that panics fails as a whole: the runtime discards every write   *)
(* it made and every promise it created.                                   *)
(***************************************************************************)
CommitNoRollback(before, out) == out.self

Commit(before, out) == IF out.panic # NoPanic THEN before ELSE out.self

(***************************************************************************)
(* State.  launch_data, meme_id_counter and fees_earned are the fields of  *)
(* Contract.  promises holds the chains dispatched so far, progress the    *)
(* execution of each (the outcomes of its finished batches and whether the *)
(* next one is running), transfers the transfers withdraw_fees scheduled.  *)
(* last is the latest call and its outcome.  history (one entry per        *)
(* launch_token call that returned) and marks (the length of history at    *)
(* each withdrawal) record the past for the properties below.              *)
(***************************************************************************)
VARIABLES launch_data, meme_id_counter, fees_earned,
          promises, progress, transfers, last, history, marks

vars == <<launch_data, meme_id_counter, fees_earned,
          promises, progress, transfers, last, history, marks>>

Self ==
    [launch_data |-> launch_data,
     meme_id_counter |-> meme_id_counter,
     fees_earned |-> fees_earned]

\* Contract::new
Init ==
    /\ launch_data = EmptyMap
    /\ meme_id_counter = EmptyMap
    /\ fees_earned = ZERO
    /\ promises = <<>>
    /\ progress = <<>>
    /\ transfers = <<>>
    /\ last = [op |-> "new", panic |-> NoPanic, ret |-> None]
    /\ history = <<>>
    /\ marks = <<>>

Store(self) ==
    /\ launch_data' = self.launch_data
    /\ meme_id_counter' = self.meme_id_counter
    /\ fees_earned' = self.fees_earned

\* A launch_token call that returns: its writes are kept and its chain is
\* dispatched.
LaunchTokenReturns(Calls, max) ==
    \E c \in Calls :
        LET out == launch_token(Self, c.env, c.args)
        IN /\ Len(history) < max
           /\ out.panic = NoPanic
           /\ Store(Commit(Self, out))
           /\ promises' = Append(promises, Unwrap(out.chain))
           /\ progress' = Append(progress, [done |-> <<>>, running |-> FALSE])
           /\ last' = [op |-> "launch_token", env |-> c.env, args |-> c.args,
                       panic |-> out.panic, ret |-> out.ret]
           /\ history' = Append(history,
                            [account_id |-> Unwrap(out.ret),
                             symbol_lower |-> Join(to_lowercase(c.args.symbol)),
                             short_id |-> c.args.short_id,
                             launched_by |-> c.env.predecessor_account_id])
           /\ UNCHANGED <<transfers, marks>>

\* A launch_token call that panics.
LaunchTokenPanics(Calls) ==
    \E c \in Calls :
        LET out == launch_token(Self, c.env, c.args)
        IN /\ out.panic # NoPanic
           /\ Store(Commit(Self, out))
           /\ last' = [op |-> "launch_token", env |-> c.env, args |-> c.args,
                       panic |-> out.panic, ret |-> out.ret]
           /\ UNCHANGED <<promises, progress, transfers, history, marks>>

PreviewId(Symbols) ==
    \E symbol \in Symbols, short_id \in BOOLEAN :
        LET out == preview_id(Self, symbol, short_id)
        IN /\ last' = [op |-> "preview_id",
                       args |-> [symbol |-> symbol, short_id |-> short_id],
                       panic |-> out.panic, ret |-> out.ret]
           /\ UNCHANGED <<launch_data, meme_id_counter, fees_earned,
                          promises, progress, transfers, history, marks>>

WithdrawFeesReturns(Envs, Recipients, max) ==
    \E env \in Envs, to \in Recipients :
        LET out == withdraw_fees(Self, env, to)
        IN /\ Len(transfers) < max
           /\ out.panic = NoPanic
           /\ Store(Commit(Self, out))
           /\ transfers' = Append(transfers, Unwrap(out.transfer))
           /\ marks' = Append(marks, Len(history))
           /\ last' = [op |-> "withdraw_fees", env |-> env, args |-> [to |-> to],
                       panic |-> out.panic, ret |-> None]
           /\ UNCHANGED <<promises, progress, history>>

WithdrawFeesPanics(Envs, Recipients) ==
    \E env \in Envs, to \in Recipients :
        LET out == withdraw_fees(Self, env, to)
        IN /\ out.panic # NoPanic
           /\ Store(Commit(Self, out))
           /\ last' = [op |-> "withdraw_fees", env |-> env, args |-> [to |-> to],
                       panic |-> out.panic, ret |-> None]
           /\ UNCHANGED <<promises, progress, transfers, history, marks>>

(***************************************************************************)
(* The chain create_token.then(prepare_dex).then(transfer_to_dex)          *)
(* .then(create_pool).detach(): the runtime runs the batches one at a      *)
(* time, the next one once the previous one has finished, whether it       *)
(* succeeded or failed; nothing reports back to the contract.              *)
(***************************************************************************)
StageStarts ==
    \E i \in 1..Len(promises) :
        /\ ~progress[i].running
        /\ Len(progress[i].done) < Len(promises[i])
        /\ progress' = [progress EXCEPT ![i].running = TRUE]
        /\ UNCHANGED <<launch_data, meme_id_counter, fees_earned,
                       promises, transfers, last, history, marks>>

\* (a failed batch takes the launch's record out of launch_data)
StageFinishesUndoes ==
    \E i \in 1..Len(promises), outcome \in {"succeeded", "failed"} :
        /\ progress[i].running
        /\ progress' = [progress EXCEPT ![i] =
                            [done |-> Append(@.done, outcome), running |-> FALSE]]
        /\ launch_data' =
              IF outcome = "failed"
              THEN [k \in DOMAIN launch_data \ {history[i].account_id} |-> launch_data[k]]
              ELSE launch_data
        /\ UNCHANGED <<meme_id_counter, fees_earned,
                       promises, transfers, last, history, marks>>

StageFinishes ==
    \E i \in 1..Len(promises), outcome \in {"succeeded", "failed"} :
        /\ progress[i].running
        /\ progress' = [progress EXCEPT ![i] =
                            [done |-> Append(@.done, outcome), running |-> FALSE]]
        /\ UNCHANGED <<launch_data, meme_id_counter, fees_earned,
                       promises, transfers, last, history, marks>>

(***************************************************************************)
(* The calls the specifications draw from.                                 *)
(***************************************************************************)
alice == "alice.near"

NoData == [telegram |-> None, x |-> None, website |-> None, description |-> None]

FullData ==
    [telegram |-> Some(Str(MAX_URL_LENGTH, "https://t.me/", FALSE)),
     x |-> Some(Str(MAX_URL_LENGTH, "https://x.com/", FALSE)),
     website |-> Some(Str(MAX_URL_LENGTH, "https://", FALSE)),
     description |-> Some(Str(MAX_DESCRIPTION_LENGTH, "", FALSE))]

BadData == [NoData EXCEPT !.x = Some(Str(20, "https://x.com/", TRUE))]

Env(predecessor, deposit) ==
    [predecessor_account_id |-> predecessor,
     attached_deposit |-> deposit,
     block_timestamp |-> 1]

Call(predecessor, deposit, symbol, short_id, data, first_buy) ==
    [env |-> Env(predecessor, deposit),
     args |-> [name |-> "Token", symbol |-> symbol, icon |-> None, decimals |-> 18,
               total_supply |-> 1000000, short_id |-> short_id, fees |-> None,
               launch_data |-> data, first_buy |-> first_buy]]

\* The deposit the accessors short_id_cost and long_id_cost announce.
Required(short_id) ==
    IF short_id THEN Unwrap(checked_add(short_id_cost, long_id_cost)) ELSE long_id_cost

Plus(a, b) == Unwrap(checked_add(a, b))
OneLess(a) == Unwrap(checked_sub(a, from_yoctonear(1)))

FirstBuy == from_near(1)

\* Spec: the symbols in both kinds with a deposit that covers either kind,
\* and calls with a deposit one yoctoNEAR short and with bad metadata.
SpecCalls ==
    {Call(alice, Required(TRUE), symbol, FALSE, NoData, None) :
        symbol \in {<<"A">>, <<"a">>, <<"a", "-", "1">>, <<"$">>}}
    \cup {Call(alice, Required(TRUE), symbol, TRUE, NoData, None) :
            symbol \in {<<"a">>, <<"a", "-", "1">>, <<"$">>}}
    \cup {Call(alice, OneLess(Required(short_id)), <<"a">>, short_id, NoData, None) :
            short_id \in BOOLEAN}
    \cup {Call(alice, Required(TRUE), <<"a">>, short_id, BadData, None) :
            short_id \in BOOLEAN}

WithdrawEnvs ==
    {Env(current_account_id, ZERO), Env(alice, ZERO),
     Env(current_account_id, from_yoctonear(1))}

Next ==
    \/ LaunchTokenReturns(SpecCalls, MaxLaunches)
    \/ LaunchTokenPanics(SpecCalls)
    \/ PreviewId({<<"a">>})
    \/ WithdrawFeesReturns(WithdrawEnvs, {alice}, MaxWithdrawals)
    \/ WithdrawFeesPanics(WithdrawEnvs, {alice})

Spec == Init /\ [][Next]_vars

\* SpecFees: launches of both kinds, by two callers, between withdrawals.
FeeCalls ==
    {Call(alice, Required(TRUE), symbol, TRUE, NoData, None) :
        symbol \in {<<"A">>, <<"a">>, <<"b">>}}
    \cup {Call(current_account_id, Required(FALSE), <<"a">>, FALSE, NoData, None),
          Call(alice, Required(FALSE), <<"a">>, TRUE, NoData, None)}

NextFees ==
    \/ LaunchTokenReturns(FeeCalls, MaxFeeLaunches)
    \/ LaunchTokenPanics(FeeCalls)
    \/ PreviewId({<<"a">>})
    \/ WithdrawFeesReturns(WithdrawEnvs, {alice, current_account_id}, MaxFeeWithdrawals)
    \/ WithdrawFeesPanics(WithdrawEnvs, {alice, current_account_id})

SpecFees == Init /\ [][NextFees]_vars

\* SpecCost: for each kind, with and without a first purchase, the exact
\* deposit and one yoctoNEAR less; a deposit above the cost; and a second
\* caller, symbol and metadata.
Exact(short_id, first_buy) == Plus(Required(short_id), unwrap_or_default(first_buy))

CostCalls ==
    {Call(alice, deposit, <<"a">>, short_id, NoData, first_buy) :
        deposit \in {Exact(FALSE, None), OneLess(Exact(FALSE, None)),
                     Exact(TRUE, Some(FirstBuy)), OneLess(Exact(TRUE, Some(FirstBuy)))},
        short_id \in BOOLEAN, first_buy \in {None, Some(FirstBuy)}}
    \cup {Call(alice, deposit, <<"a">>, short_id, NoData, first_buy) :
            deposit \in {Exact(TRUE, None), OneLess(Exact(TRUE, None))},
            short_id \in {TRUE}, first_buy \in {None, Some(FirstBuy)}}
    \cup {Call(current_account_id, Required(short_id), <<"b">>, short_id, FullData, None) :
            short_id \in BOOLEAN}
    \cup {Call(current_account_id, OneLess(Required(short_id)), <<"b">>, short_id,
                FullData, None) :
            short_id \in BOOLEAN}

NextCost ==
    \/ LaunchTokenReturns(CostCalls, MaxCostLaunches)
    \/ LaunchTokenPanics(CostCalls)

SpecCost == Init /\ [][NextCost]_vars

\* SpecAsync: launches of the short kind while the dispatched chains run.
AsyncCalls ==
    {Call(alice, Required(TRUE), symbol, TRUE, NoData, None) :
        symbol \in {<<"A">>, <<"a">>, <<"b">>}}
    \cup {Call(alice, OneLess(Required(TRUE)), <<"a">>, TRUE, NoData, None)}

NextAsync ==
    \/ LaunchTokenReturns(AsyncCalls, MaxAsyncLaunches)
    \/ LaunchTokenPanics(AsyncCalls)
    \/ StageStarts
    \/ StageFinishes

SpecAsync == Init /\ [][NextAsync]_vars

\* SpecIds: every symbol in both kinds, previews of each, hyphenated short
\* symbols with several deposits, and calls that fail more than one check.
IdSymbols == {<<"A">>, <<"a">>, <<"a", "-", "1">>, <<"$">>}

IdCalls ==
    {Call(alice, Required(TRUE), symbol, short_id, NoData, None) :
        symbol \in IdSymbols, short_id \in BOOLEAN}
    \cup {Call(current_account_id, Required(TRUE), <<"a">>, FALSE, NoData, None)}
    \cup {Call(alice, deposit, <<"a", "-", "1">>, TRUE, NoData, None) :
            deposit \in {ZERO, OneLess(Required(TRUE)), Plus(Required(TRUE), FirstBuy)}}
    \cup {Call(alice, OneLess(Required(short_id)), <<"a">>, short_id, NoData, None) :
            short_id \in BOOLEAN}
    \cup {Call(alice, OneLess(Required(TRUE)), <<"$">>, TRUE, NoData, None)}
    \cup {Call(alice, deposit, symbol, TRUE, BadData, None) :
            deposit \in {ZERO, Required(TRUE)}, symbol \in {<<"a">>, <<"a", "-", "1">>}}
    \cup {Call(alice, Required(TRUE), <<"a">>, FALSE, BadData, None)}

NextIds ==
    \/ LaunchTokenReturns(IdCalls, MaxIdLaunches)
    \/ LaunchTokenPanics(IdCalls)
    \/ PreviewId(IdSymbols)
    \/ WithdrawFeesReturns(WithdrawEnvs, {alice}, MaxIdWithdrawals)
    \/ WithdrawFeesPanics(WithdrawEnvs, {alice})

SpecIds == Init /\ [][NextIds]_vars

\* SpecChain: both kinds without a first purchase, with one of zero and with
\* one of 1 NEAR, by two callers, with the exact deposit, with more, with one
\* yoctoNEAR less and with the cost alone.
bob == "bob.near"

FirstBuys == {None, Some(ZERO), Some(FirstBuy)}

ChainCalls ==
    {Call(alice, Exact(TRUE, Some(FirstBuy)), <<"a">>, short_id, NoData, first_buy) :
        short_id \in BOOLEAN, first_buy \in FirstBuys}
    \cup {Call(alice, Exact(short_id, first_buy), <<"a">>, short_id, NoData, first_buy) :
            short_id \in BOOLEAN, first_buy \in FirstBuys}
    \cup {Call(alice, OneLess(Exact(short_id, first_buy)), <<"a">>, short_id, NoData,
                first_buy) :
            short_id \in BOOLEAN, first_buy \in {None, Some(FirstBuy)}}
    \cup {Call(alice, Required(short_id), <<"a">>, short_id, NoData, Some(FirstBuy)) :
            short_id \in BOOLEAN}
    \cup {Call(bob, Exact(TRUE, Some(FirstBuy)), <<"B">>, TRUE, FullData, Some(FirstBuy)),
          Call(bob, Exact(FALSE, None), <<"B">>, FALSE, FullData, None)}

NextChain ==
    \/ LaunchTokenReturns(ChainCalls, MaxChainLaunches)
    \/ LaunchTokenPanics(ChainCalls)

SpecChain == Init /\ [][NextChain]_vars

\* SpecStages: a launch of each kind and a refused one, while the batches of
\* the dispatched chains start and finish.
StageCalls ==
    {Call(alice, Required(TRUE), <<"a">>, short_id, NoData, None) : short_id \in BOOLEAN}
    \cup {Call(alice, OneLess(Required(FALSE)), <<"a">>, FALSE, NoData, None)}

NextStages ==
    \/ LaunchTokenReturns(StageCalls, MaxStageLaunches)
    \/ LaunchTokenPanics(StageCalls)
    \/ StageStarts
    \/ StageFinishes

SpecStages == Init /\ [][NextStages]_vars

(***************************************************************************)
(* Properties.                                                             *)
(***************************************************************************)
Insufficient == "Insufficient deposit for launch cost. Attach at least"
Taken == "Short account ID for this symbol is already taken"

IsPanic(call, message) == call.panic # NoPanic /\ call.panic[1] = message

IsLaunch(call) == call.op = "launch_token"

\* The number of the i-th returned launch among the standard launches of its
\* lowercased symbol.
Rank(i) ==
    Cardinality({j \in 1..i : /\ ~history[j].short_id
                              /\ history[j].symbol_lower = history[i].symbol_lower})

LastMark == IF marks = <<>> THEN 0 ELSE marks[Len(marks)]

\* The short-kind launches that returned since the last withdrawal.
ScarceSince ==
    Cardinality({i \in 1..Len(history) : history[i].short_id /\ i > LastMark})

RECURSIVE Times(_, _)
Times(n, amount) == IF n = 0 THEN ZERO ELSE Plus(amount, Times(n - 1, amount))

\* C1: the N-th launch_token call of the standard kind that returns for a
\* lowercased symbol S returns S-N.<contract account>, whatever launches of
\* other symbols, short-kind launches and withdrawals come in between.
C1_StandardIdsCount ==
    \A i \in 1..Len(history) :
        ~history[i].short_id =>
            history[i].account_id =
                history[i].symbol_lower \o "-" \o Join(Dec(Rank(i)))
                    \o "." \o current_account_id

\* Three returned launches: the first and the third of the standard kind for
\* the same lowercased symbol, another launch and a withdrawal in between.
C1_Witness ==
    /\ Len(history) = 3
    /\ ~history[1].short_id /\ ~history[3].short_id
    /\ history[1].symbol_lower = history[3].symbol_lower
    /\ (history[2].short_id \/ history[2].symbol_lower # history[1].symbol_lower)
    /\ history[3].account_id = "a-2.launch.near"
    /\ marks # <<>> /\ marks[1] \in {1, 2}

\* C2 as stated: once a short-kind launch of a lowercased symbol has
\* returned, every later short-kind launch of it panics with the
\* already-taken message (and so no second one returns).
C2_Original ==
    /\ \A i, j \in 1..Len(history) :
          (i # j /\ history[i].short_id /\ history[j].short_id)
              => history[i].symbol_lower # history[j].symbol_lower
    /\ (/\ IsLaunch(last) /\ last.args.short_id /\ last.panic # NoPanic
        /\ \E i \in 1..Len(history) :
              /\ history[i].short_id
              /\ history[i].symbol_lower = Join(to_lowercase(last.args.symbol)))
       => IsPanic(last, Taken)

\* C2, amended: no two short-kind launches of one lowercased symbol return,
\* and a later short-kind launch of it with valid metadata and a sufficient
\* deposit panics with the already-taken message, whatever the dispatched
\* chains are doing.
C2_SecondShortLaunchFails ==
    /\ \A i, j \in 1..Len(history) :
          (i # j /\ history[i].short_id /\ history[j].short_id)
              => history[i].symbol_lower # history[j].symbol_lower
    /\ (/\ IsLaunch(last) /\ last.args.short_id /\ last.panic # NoPanic
        /\ validate(last.args.launch_data) = NoPanic
        /\ Le(Plus(Required(TRUE), unwrap_or_default(last.args.first_buy)),
              last.env.attached_deposit)
        /\ \E i \in 1..Len(history) :
              /\ history[i].short_id
              /\ history[i].symbol_lower = Join(to_lowercase(last.args.symbol)))
       => IsPanic(last, Taken)

\* The second launch panics while the chain of the first has one batch
\* failed and the next one running.
C2_Witness ==
    /\ IsLaunch(last) /\ IsPanic(last, Taken)
    /\ last.args.symbol = <<"A">>
    /\ history[1].symbol_lower = "a"
    /\ progress[1] = [done |-> <<"succeeded", "failed">>, running |-> TRUE]

\* C3: no two launch_token calls return the same identifier.
C3_IdentifiersUnique ==
    \A i, j \in 1..Len(history) :
        i # j => history[i].account_id # history[j].account_id

\* The short identifier of "a", the first standard one of "a" and the first
\* standard one of "a-1" have all been returned.
C3_Witness ==
    {history[i].account_id : i \in 1..Len(history)} =
        {"a.launch.near", "a-1.launch.near", "a-1-1.launch.near"}

\* C4: with valid metadata, no first purchase and an identifier preview_id
\* would return, a deposit of exactly the cost of the kind makes launch_token
\* return that identifier, and one yoctoNEAR less makes it panic with the
\* insufficient-deposit message and change nothing.
C4_Step ==
    LET preview == preview_id(Self, last'.args.symbol, last'.args.short_id)
    IN (/\ IsLaunch(last')
        /\ validate(last'.args.launch_data) = NoPanic
        /\ last'.args.first_buy = None
        /\ preview.panic = NoPanic)
       => /\ last'.env.attached_deposit = Required(last'.args.short_id)
             => (last'.panic = NoPanic /\ last'.ret = preview.ret)
          /\ last'.env.attached_deposit = OneLess(Required(last'.args.short_id))
             => /\ IsPanic(last', Insufficient)
                /\ UNCHANGED <<launch_data, meme_id_counter, fees_earned, promises>>

C4_ExactDepositSuffices == [][C4_Step]_vars

\* A launch with exactly the cost has returned (its leftover is zero) and the
\* latest call, one yoctoNEAR short, has panicked.
C4_Witness ==
    /\ Len(promises) >= 1
    /\ promises[1][1].actions[3].deposit = ZERO
    /\ IsLaunch(last) /\ IsPanic(last, Insufficient)
    /\ last.args.first_buy = None
    /\ last.env.attached_deposit = OneLess(Required(last.args.short_id))

\* C5: a launch_token call that panics leaves launch_data, meme_id_counter
\* and fees_earned as they were and dispatches nothing.
C5_Step ==
    (IsLaunch(last') /\ last'.panic # NoPanic)
        => UNCHANGED <<launch_data, meme_id_counter, fees_earned, promises, transfers>>

C5_PanicKeepsState == [][C5_Step]_vars

\* A standard launch has panicked on the identifier, after the counter was
\* written, in a state with launches behind it.
C5_Witness ==
    /\ IsLaunch(last) /\ IsPanic(last, "Invalid ticker")
    /\ ~last.args.short_id
    /\ Len(history) >= 1
    /\ "$" \notin DOMAIN meme_id_counter

\* C6: a withdraw_fees call that returns schedules one transfer, to the given
\* recipient, of the premium times the short-kind launches since the last
\* withdrawal (zero when there were none), and leaves fees_earned at zero.
C6_Step ==
    (last'.op = "withdraw_fees" /\ last'.panic = NoPanic)
        => /\ transfers' = Append(transfers,
                              [receiver_id |-> last'.args.to,
                               amount |-> Times(ScarceSince, short_id_cost)])
           /\ fees_earned' = ZERO

C6_WithdrawTransfersAccrued == [][C6_Step]_vars

\* Two short-kind launches, then two withdrawals in a row.
C6_Witness ==
    /\ Len(transfers) = 2
    /\ marks = <<2, 2>>
    /\ transfers[1].amount = Times(2, short_id_cost)
    /\ transfers[2].amount = ZERO
    /\ fees_earned = ZERO

\* C7: a withdraw_fees call from another account than the contract's own
\* panics, schedules no transfer and leaves fees_earned as it was.
C7_Step ==
    (last'.op = "withdraw_fees"
        /\ last'.env.predecessor_account_id # current_account_id)
        => /\ last'.panic # NoPanic
           /\ UNCHANGED <<fees_earned, transfers>>

C7_WithdrawIsPrivate == [][C7_Step]_vars

C7_Witness ==
    /\ last.op = "withdraw_fees"
    /\ last.env.predecessor_account_id = alice
    /\ last.env.attached_deposit = ZERO
    /\ last.panic # NoPanic
    /\ fees_earned # ZERO
    /\ transfers = <<>>

\* C8: a returning short-kind launch adds the premium to fees_earned, every
\* other launch_token call and preview_id leave it alone, it decreases only
\* in withdraw_fees, to zero; so it is the premium times the short-kind
\* launches since the last withdrawal.
C8_Step ==
    /\ (IsLaunch(last') /\ last'.panic = NoPanic /\ last'.args.short_id)
          => fees_earned' = Plus(fees_earned, SHORT_ID_COST)
    /\ (IsLaunch(last') /\ ~(last'.panic = NoPanic /\ last'.args.short_id))
          => fees_earned' = fees_earned
    /\ last'.op = "preview_id" => fees_earned' = fees_earned
    /\ Lt(fees_earned', fees_earned)
          => (last'.op = "withdraw_fees" /\ fees_earned' = ZERO)
    /\ fees_earned' = Times(ScarceSince', short_id_cost)

C8_FeesEarned == [][C8_Step]_vars

\* One short-kind launch before the withdrawal and one after it.
C8_Witness ==
    /\ Len(history) = 2
    /\ history[1].short_id /\ history[2].short_id
    /\ marks = <<1>>
    /\ fees_earned = SHORT_ID_COST

\* C9: launch_token asks for long_id_cost, and for long_id_cost plus
\* short_id_cost for the short kind, whatever the state, the caller and the
\* symbol: with valid metadata it panics with the insufficient-deposit
\* message, naming that cost, exactly when the deposit is below the cost of
\* the kind plus the first purchase; the short kind costs the premium more.
C9_CostByKind ==
    IsLaunch(last) /\ validate(last.args.launch_data) = NoPanic
        => /\ IsPanic(last, Insufficient)
                <=> Lt(last.env.attached_deposit,
                       Plus(Required(last.args.short_id),
                            unwrap_or_default(last.args.first_buy)))
           /\ IsPanic(last, Insufficient)
                => last.panic[2] = Required(last.args.short_id)
           /\ Cost([last.args EXCEPT !.short_id = TRUE])
                = Plus(Cost([last.args EXCEPT !.short_id = FALSE]), short_id_cost)
           /\ Lt(Cost([last.args EXCEPT !.short_id = FALSE]),
                 Cost([last.args EXCEPT !.short_id = TRUE]))

\* The contract itself, with another symbol, is refused one yoctoNEAR below
\* the cost of the short kind after an earlier launch.
C9_Witness ==
    /\ IsLaunch(last) /\ IsPanic(last, Insufficient)
    /\ last.env.predecessor_account_id = current_account_id
    /\ last.args.symbol = <<"b">>
    /\ last.args.short_id
    /\ Len(history) >= 1

\* The cost without the per-asset registration deposits and the premium.
OtherDeposits ==
    Plus(Plus(INTEAR_DEX_STORAGE_DEPOSIT, PLACH_POOL_STORAGE_DEPOSIT),
         OWN_STORAGE_EXPENSES)

WithPremium(short_id, amount) ==
    IF short_id THEN Plus(amount, SHORT_ID_COST) ELSE amount

\* C10 as stated: the cost holds one FT_STORAGE_DEPOSIT without a first
\* purchase and two with one.
C10_Original ==
    IsLaunch(last) /\ validate(last.args.launch_data) = NoPanic
        => (IsPanic(last, Insufficient)
                <=> Lt(last.env.attached_deposit,
                       Plus(WithPremium(last.args.short_id,
                                Plus(OtherDeposits,
                                     IF IsSome(last.args.first_buy)
                                     THEN Plus(FT_STORAGE_DEPOSIT, FT_STORAGE_DEPOSIT)
                                     ELSE FT_STORAGE_DEPOSIT)),
                            unwrap_or_default(last.args.first_buy))))

\* C10, amended: the cost holds two FT_STORAGE_DEPOSIT with or without a
\* first purchase: what a returning launch keeps of the deposit (the deposit
\* less the leftover sent to the new account and the first purchase) is the
\* three other deposits, two FT_STORAGE_DEPOSIT and, for the short kind, the
\* premium; and that is the cost a refused launch is told to attach.
C10_TwoRegistrations ==
    LET charged == WithPremium(last.args.short_id,
                       Plus(OtherDeposits, Plus(FT_STORAGE_DEPOSIT, FT_STORAGE_DEPOSIT)))
    IN IsLaunch(last)
        => /\ last.panic = NoPanic
                => Plus(Plus(promises[Len(promises)][1].actions[3].deposit,
                             unwrap_or_default(last.args.first_buy)),
                        charged)
                     = last.env.attached_deposit
           /\ IsPanic(last, Insufficient) => last.panic[2] = charged

\* A standard launch without a first purchase has returned, and one with a
\* first purchase before it.
C10_Witness ==
    /\ Len(history) = 2
    /\ IsLaunch(last) /\ last.panic = NoPanic
    /\ ~last.args.short_id
    /\ last.args.first_buy = None
    /\ Len(promises[1][4].actions[1].args.operations) = 3

\* C11: a launch_token or preview_id call of the short kind whose symbol
\* holds a hyphen panics, whatever the state and the deposit: it returns no
\* identifier and leaves launch_data, meme_id_counter and fees_earned as they
\* were.
C11_Step ==
    ((IsLaunch(last') \/ last'.op = "preview_id")
        /\ last'.args.short_id /\ contains(last'.args.symbol, "-"))
        => /\ last'.panic # NoPanic
           /\ last'.ret = None
           /\ UNCHANGED <<launch_data, meme_id_counter, fees_earned, promises>>

C11_HyphenNeverShort == [][C11_Step]_vars

\* A short launch of "a-1" with more than the cost is refused for the hyphen
\* in a state where the standard launch of "a" holds a-1.launch.near.
C11_Witness ==
    /\ IsLaunch(last) /\ last.args.short_id
    /\ last.args.symbol = <<"a", "-", "1">>
    /\ last.env.attached_deposit = Plus(Required(TRUE), FirstBuy)
    /\ IsPanic(last, "Symbol cannot contain hyphens when using a short ID.")
    /\ "a-1.launch.near" \in DOMAIN launch_data

Methods(batch) ==
    [k \in 1..Len(batch.actions) |->
        IF batch.actions[k].kind = "function_call"
        THEN batch.actions[k].method ELSE batch.actions[k].kind]

\* The chain the latest returning launch_token call dispatched.
Dispatched == promises[Len(promises)]

\* C12: a launch_token call that returns dispatches one chain of four
\* batches in the order provision (on the new account), exchange
\* preparation, custody transfer (on the new account), pool creation; the
\* operations of the last are create_pool alone without a first purchase and
\* create_pool, swap, withdraw with one, the withdrawal going to the caller.
C12_Step ==
    (IsLaunch(last') /\ last'.panic = NoPanic)
        => LET chain == promises'[Len(promises')]
               account_id == Unwrap(last'.ret)
               operations == chain[4].actions[1].args.operations
           IN /\ promises' = Append(promises, chain)
              /\ Len(chain) = 4
              /\ chain[1].receiver_id = account_id
              /\ Methods(chain[1]) =
                    <<"create_account", "use_global_contract", "transfer", "new">>
              /\ chain[2].receiver_id = INTEAR_DEX_CONTRACT_ID
              /\ Methods(chain[2]) =
                    <<"storage_deposit", "register_assets", "register_assets",
                      "deposit_near">>
              /\ chain[3].receiver_id = account_id
              /\ Methods(chain[3])[Len(chain[3].actions)] = "ft_transfer_call"
              /\ chain[4].receiver_id = INTEAR_DEX_CONTRACT_ID
              /\ Methods(chain[4]) = <<"execute_operations">>
              /\ operations[1].op = "DexCall" /\ operations[1].method = "create_pool"
              /\ IF last'.args.first_buy = None
                 THEN Len(operations) = 1
                 ELSE /\ Len(operations) = 3
                      /\ operations[2].op = "SwapSimple"
                      /\ operations[3].op = "Withdraw"
                      /\ operations[3].to = Some(last'.env.predecessor_account_id)

C12_FourStages == [][C12_Step]_vars

\* A launch without a first purchase by one caller, then one with a first
\* purchase by another.
C12_Witness ==
    /\ Len(promises) = 2
    /\ Len(promises[1][4].actions[1].args.operations) = 1
    /\ history[1].launched_by = alice
    /\ IsLaunch(last) /\ last.panic = NoPanic
    /\ last.env.predecessor_account_id = bob
    /\ last.args.first_buy = Some(FirstBuy)
    /\ Dispatched[4].actions[1].args.operations[3].to = Some(bob)

TakenPreview == "Short account ID for this symbol is already taken."

\* C13: preview_id writes nothing, and in the state a launch_token call with
\* valid metadata and a sufficient deposit is made in, preview_id of its
\* symbol and kind returns exactly when the call returns, returns the same
\* identifier, and panics with its already-taken message exactly when the
\* call panics with the already-taken message.
C13_Step ==
    /\ last'.op = "preview_id"
          => UNCHANGED <<launch_data, meme_id_counter, fees_earned, promises, transfers>>
    /\ (/\ IsLaunch(last')
        /\ validate(last'.args.launch_data) = NoPanic
        /\ Le(Plus(Required(last'.args.short_id),
                   unwrap_or_default(last'.args.first_buy)),
              last'.env.attached_deposit))
          => LET preview == preview_id(Self, last'.args.symbol, last'.args.short_id)
             IN /\ (preview.panic = NoPanic) <=> (last'.panic = NoPanic)
                /\ preview.ret = last'.ret
                /\ IsPanic(preview, TakenPreview) <=> IsPanic(last', Taken)

C13_PreviewAgrees == [][C13_Step]_vars

\* The short identifier of "a" is taken and "a" has also been launched in the
\* standard kind; the preview of the short "A" is refused.
C13_Witness ==
    /\ last.op = "preview_id"
    /\ last.args.symbol = <<"A">> /\ last.args.short_id
    /\ IsPanic(last, TakenPreview)
    /\ "a.launch.near" \in DOMAIN launch_data
    /\ "a-1.launch.near" \in DOMAIN launch_data

\* C14: launch_token returns the identifier with no batch of its chain
\* started; a batch of a chain starts only when the batches before it have
\* finished, and finishes only after it started; the outcomes recorded stay;
\* and no step, a failing batch included, takes a record out of launch_data,
\* lowers a counter or lowers fees_earned.
C14_Step ==
    /\ Len(progress') > Len(progress)
          => /\ progress' = Append(progress, [done |-> <<>>, running |-> FALSE])
             /\ IsLaunch(last') /\ last'.panic = NoPanic
             /\ last'.ret = Some(history'[Len(history')].account_id)
    /\ Len(progress') >= Len(progress)
    /\ \A i \in 1..Len(progress) :
          LET before == progress[i]
              after == progress'[i]
          IN /\ \/ after.done = before.done
                \/ /\ before.running /\ ~after.running
                   /\ \E outcome \in {"succeeded", "failed"} :
                         after.done = Append(before.done, outcome)
             /\ (after.running /\ ~before.running)
                   => (after.done = before.done /\ Len(before.done) < Len(promises[i]))
             /\ Len(after.done) <= Len(promises[i])
             /\ after # before
                   => UNCHANGED <<launch_data, meme_id_counter, fees_earned, promises>>
    /\ \A k \in DOMAIN launch_data :
          k \in DOMAIN launch_data' /\ launch_data'[k] = launch_data[k]
    /\ \A k \in DOMAIN meme_id_counter :
          k \in DOMAIN meme_id_counter' /\ meme_id_counter'[k] >= meme_id_counter[k]
    /\ Le(fees_earned, fees_earned')
    /\ \A i \in 1..Len(history') : history'[i].account_id \in DOMAIN launch_data'

C14_StagesInOrderNoRollback == [][C14_Step]_vars

\* The chain of a standard launch has had its second batch fail and its
\* third succeed and runs its fourth; a short launch came in between whose
\* chain has not started; both records, the counter and the fee are there.
C14_Witness ==
    /\ Len(progress) = 2
    /\ progress[1] = [done |-> <<"succeeded", "failed", "succeeded">>, running |-> TRUE]
    /\ progress[2] = [done |-> <<>>, running |-> FALSE]
    /\ ~history[1].short_id /\ history[2].short_id
    /\ DOMAIN launch_data = {"a-1.launch.near", "a.launch.near"}
    /\ meme_id_counter["a"] = 1
    /\ fees_earned = SHORT_ID_COST

IsAmount(amount) == \A k \in 1..5 : amount[k] \in 0..(Base - 1)

\* C15: a launch_token call returns only with a deposit of at least the cost
\* of the kind plus the first purchase F (zero when none is given), and the
\* transfer to the new account in its first batch is then the deposit less
\* the cost less F, an amount that is not negative.
C15_Leftover ==
    (IsLaunch(last) /\ last.panic = NoPanic)
        => LET due == Plus(Required(last.args.short_id),
                           unwrap_or_default(last.args.first_buy))
               sent == Dispatched[1].actions[3]
           IN /\ Le(due, last.env.attached_deposit)
              /\ sent.kind = "transfer"
              /\ sent.deposit = DiffLimbs(last.env.attached_deposit, due)
              /\ IsAmount(sent.deposit)
              /\ Plus(sent.deposit, due) = last.env.attached_deposit

\* A standard launch with a first purchase of 1 NEAR and a deposit 1 NEAR
\* above what is due, as the second launch.
C15_Witness ==
    /\ IsLaunch(last) /\ last.panic = NoPanic
    /\ ~last.args.short_id
    /\ last.args.first_buy = Some(FirstBuy)
    /\ last.env.attached_deposit = Exact(TRUE, Some(FirstBuy))
    /\ Dispatched[1].actions[3].deposit = from_near(1)
    /\ Len(history) = 2

\* The storage_deposit calls of a batch that register `account`.
Registrations(batch, account) ==
    {k \in 1..Len(batch.actions) :
        /\ batch.actions[k].kind = "function_call"
        /\ batch.actions[k].method = "storage_deposit"
        /\ batch.actions[k].args.account_id = account}

\* The batch registers the exchange first and ends with the transfer of the
\* whole supply to the exchange with an empty msg.
CustodyOfSupply(batch, a) ==
    LET final == batch.actions[Len(batch.actions)]
    IN /\ Registrations(batch, INTEAR_DEX_CONTRACT_ID) = {1}
       /\ final.kind = "function_call" /\ final.method = "ft_transfer_call"
       /\ final.args.receiver_id = INTEAR_DEX_CONTRACT_ID
       /\ final.args.amount = a.total_supply
       /\ final.args.msg = ""

\* C16 as stated: the custody batch registers the exchange and transfers the
\* whole supply to it with an empty msg, and registers the caller exactly
\* when a first purchase is given.
C16_Original ==
    (IsLaunch(last) /\ last.panic = NoPanic)
        => /\ CustodyOfSupply(Dispatched[3], last.args)
           /\ Registrations(Dispatched[3], last.env.predecessor_account_id) # {}
                <=> IsSome(last.args.first_buy)

\* C16, amended: the custody batch registers the exchange, then the caller,
\* then transfers the whole supply to the exchange with an empty msg, with
\* or without a first purchase.
C16_CustodyRegistersBoth ==
    (IsLaunch(last) /\ last.panic = NoPanic)
        => /\ CustodyOfSupply(Dispatched[3], last.args)
           /\ Registrations(Dispatched[3], last.env.predecessor_account_id) = {2}
           /\ Len(Dispatched[3].actions) = 3
           /\ \A k \in 1..2 :
                 /\ Dispatched[3].actions[k].deposit = FT_STORAGE_DEPOSIT
                 /\ Dispatched[3].actions[k].args.registration_only

\* A launch by bob without a first purchase has returned; its custody batch
\* registers bob.
C16_Witness ==
    /\ IsLaunch(last) /\ last.panic = NoPanic
    /\ last.args.first_buy = None
    /\ last.env.predecessor_account_id = bob
    /\ Dispatched[3].actions[2].args.account_id = bob

\* C17: the execute_operations call of a returning launch carries the first
\* purchase as its deposit when one is given (zero included) and 1 yoctoNEAR
\* otherwise, and the swap takes exactly the first purchase in, with no
\* constraint on what comes out.
C17_PoolCallDeposit ==
    (IsLaunch(last) /\ last.panic = NoPanic)
        => LET call == Dispatched[4].actions[1]
               first_buy == last.args.first_buy
           IN /\ call.method = "execute_operations"
              /\ first_buy = None => call.deposit = <<1, 0, 0, 0, 0>>
              /\ first_buy # None
                    => /\ call.deposit = first_buy[1]
                       /\ call.args.operations[2].op = "SwapSimple"
                       /\ call.args.operations[2].asset_in = "near"
                       /\ call.args.operations[2].asset_out = Unwrap(last.ret)
                       /\ call.args.operations[2].exact_in = first_buy[1]
                       /\ call.args.operations[2].constraint = None

\* A launch with a first purchase of 1 NEAR, then one with a first purchase
\* of zero, whose execute_operations call carries no deposit.
C17_Witness ==
    /\ Len(promises) = 2
    /\ promises[1][4].actions[1].deposit = FirstBuy
    /\ IsLaunch(last) /\ last.panic = NoPanic
    /\ last.args.first_buy = Some(ZERO)
    /\ Dispatched[4].actions[1].deposit = ZERO
    /\ Dispatched[4].actions[1].args.operations[2].exact_in = ZERO

IdentifierPanic(call) ==
    \/ IsPanic(call, "Symbol cannot contain hyphens when using a short ID.")
    \/ IsPanic(call, "Invalid ticker")
    \/ IsPanic(call, Taken)

\* C18: launch_token checks the metadata, then the deposit, then the
\* identifier: invalid metadata gives the metadata panic whatever the deposit
\* and the symbol; valid metadata with a deposit below the cost plus the
\* first purchase gives the insufficient-deposit panic whatever the symbol
\* and the registry; the hyphen, invalid-ticker and already-taken panics
\* come only with valid metadata and a sufficient deposit.
C18_CheckOrder ==
    IsLaunch(last)
        => LET invalid == validate(last.args.launch_data)
               short == Lt(last.env.attached_deposit,
                           Plus(Required(last.args.short_id),
                                unwrap_or_default(last.args.first_buy)))
           IN /\ invalid # NoPanic => last.panic = invalid
              /\ (invalid = NoPanic /\ short) => IsPanic(last, Insufficient)
              /\ IdentifierPanic(last) => (invalid = NoPanic /\ ~short)

\* The short identifier of "a" is taken, and a short launch of "a" one
\* yoctoNEAR below the cost is refused for the deposit.
C18_Witness ==
    /\ IsLaunch(last) /\ last.args.short_id
    /\ last.args.symbol = <<"a">>
    /\ "a.launch.near" \in DOMAIN launch_data
    /\ last.env.attached_deposit = OneLess(Required(TRUE))
    /\ IsPanic(last, Insufficient)

RECURSIVE SumDeposits(_, _)
SumDeposits(actions, k) ==
    IF k = 0 THEN ZERO
    ELSE Plus(SumDeposits(actions, k - 1),
              IF "deposit" \in DOMAIN actions[k] THEN actions[k].deposit ELSE ZERO)

\* The NEAR attached to the actions of the four batches of a chain.
Attached(chain) ==
    Plus(Plus(SumDeposits(chain[1].actions, Len(chain[1].actions)),
              SumDeposits(chain[2].actions, Len(chain[2].actions))),
         Plus(SumDeposits(chain[3].actions, Len(chain[3].actions)),
              SumDeposits(chain[4].actions, Len(chain[4].actions))))

\* C19: what a returning launch_token call attaches to the actions of its
\* chain, plus what it adds to fees_earned, is at most the deposit attached
\* to the call.
C19_Step ==
    (IsLaunch(last') /\ last'.panic = NoPanic)
        => Le(Plus(Attached(promises'[Len(promises')]),
                   DiffLimbs(fees_earned', fees_earned)),
              last'.env.attached_deposit)

C19_ValueConserved == [][C19_Step]_vars

\* A short launch with a first purchase and exactly the deposit due, so that
\* nothing is left over, after an earlier short launch.
C19_Witness ==
    /\ IsLaunch(last) /\ last.panic = NoPanic
    /\ last.args.short_id
    /\ last.args.first_buy = Some(FirstBuy)
    /\ last.env.attached_deposit = Exact(TRUE, Some(FirstBuy))
    /\ Dispatched[1].actions[3].deposit = ZERO
    /\ fees_earned = Plus(SHORT_ID_COST, SHORT_ID_COST)

\* The counter of a lowercased symbol, 0 when it has none.
CounterOf(counter, S) == IF S \in DOMAIN counter THEN counter[S] ELSE 0

StandardId(S, k) == S \o "-" \o Join(Dec(k)) \o "." \o current_account_id

\* C20: the counter of a lowercased symbol S never goes down and changes
\* only in a returning standard launch of S, by one; launch_data holds a
\* record under the standard identifier S-k exactly for k from 1 to the
\* counter of S; a record is never changed once written, and its launched_by
\* is the caller of the launch that returned its identifier.
C20_Step ==
    /\ \A S \in DOMAIN meme_id_counter \cup DOMAIN meme_id_counter' :
          LET before == CounterOf(meme_id_counter, S)
              after == CounterOf(meme_id_counter', S)
          IN /\ after >= before
             /\ after # before
                   => /\ IsLaunch(last') /\ last'.panic = NoPanic
                      /\ ~last'.args.short_id
                      /\ Join(to_lowercase(last'.args.symbol)) = S
                      /\ after = before + 1
    /\ (IsLaunch(last') /\ last'.panic = NoPanic /\ ~last'.args.short_id)
          => LET S == Join(to_lowercase(last'.args.symbol))
             IN CounterOf(meme_id_counter', S) = CounterOf(meme_id_counter, S) + 1
    /\ \A symbol \in IdSymbols, k \in 0..(MaxIdLaunches + 1) :
          LET S == Join(to_lowercase(symbol))
          IN StandardId(S, k) \in DOMAIN launch_data'
                <=> (1 <= k /\ k <= CounterOf(meme_id_counter', S))
    /\ \A id \in DOMAIN launch_data :
          id \in DOMAIN launch_data' /\ launch_data'[id] = launch_data[id]
    /\ \A i \in 1..Len(history') :
          /\ history'[i].account_id \in DOMAIN launch_data'
          /\ launch_data'[history'[i].account_id].launched_by = history'[i].launched_by

C20_CounterAndRegistry == [][C20_Step]_vars

\* Two standard launches of "a" by two callers, then a preview.
C20_Witness ==
    /\ CounterOf(meme_id_counter, "a") = 2
    /\ DOMAIN launch_data = {"a-1.launch.near", "a-2.launch.near"}
    /\ {launch_data[id].launched_by : id \in DOMAIN launch_data}
          = {alice, current_account_id}
    /\ last.op = "preview_id"
    /\ last.ret = Some("a-3.launch.near")

=============================================================================
